---- MODULE Spec2Model ----
(***************************************************************************)
(* A model of the AEGIS / ENA term-reconciliation scripts:                 *)
(*   compare_aegis_sheets.py     clean_ena_field_list, _is_truthy          *)
(*   get_ena_checklist_details.py  ENASchemaStoreClient                    *)
(*                                                                         *)
(* Python strings are modelled as sequences of one-character strings, so   *)
(* that strip(), lower(), split('+'), replace('"','') and the regular      *)
(* expression of clean_ena_field_list are computed character by character. *)
(* An optional value (a dict key that may be missing, a JSON null) is a    *)
(* sequence of length 0 (absent) or 1 (present).                           *)
(***************************************************************************)
EXTENDS Integers, Sequences, FiniteSets, TLC

VARIABLES
    field_list,     \* clean_ena_field_list: the term list handed in
    cleaned,        \* clean_ena_field_list: the members of the returned list
    recleaned,      \* the members returned when the result is cleaned again
    cpc,            \* position of the normalizer run: start, cleaned, recleaned
    cell,           \* _is_truthy: the cell value v
    truthy,         \* _is_truthy: the value returned, as <<b>>; <<>> before the call
    fields,         \* registry: the records of the /fields page
    schemas,        \* registry: the entries of /schemas/list, as <<key, entry>> pairs
    requests,       \* session: number of GET requests issued, per path
    response,       \* how the last GET ended: none, ok, or the kind of failure
    calls,          \* number of client operations invoked so far
    op,             \* the last client operation, with its arguments
    outcome,        \* how the last client operation ended: none, returned, raised
    result,         \* what the last client operation returned
    df_carl,        \* process: the 'ENA wish' column of Carl's sheet
    df_ena,         \* process: the rows of ENA's sheet: recommended, needs_new
    report,         \* process: what it printed and logged, as <<record>>
    ppc,            \* position of process: start, done, raised
    sheet_a,        \* main: the --sheet-a argument
    sheet_b,        \* main: the --sheet-b argument
    print_head,     \* main: the --print-head argument
    mpc,            \* position of main
    exit_code,      \* main: the process exit status, as <<n>>; <<>> while running
    fetched,        \* main: per sheet, no / ok / failed: how its CSV fetch went
    df_a,           \* main: df_a, none or frame
    df_b,           \* main: df_b, none or frame
    pd_flag,        \* main: pd_flag, as <<b>>; <<>> before it is set
    printed,        \* main: what was logged and printed, in order
    files,          \* the files opened for writing
    slots,          \* MIxsFull: self.slots, as <<key, value>> pairs in file order
    all_field_names,            \* MIxsFull.all_field_names
    all_field_titles,           \* MIxsFull.all_field_titles
    all_keys_main_slot_info,    \* MIxsFull.all_keys_main_slot_info
    slot_hash_by_title,         \* MIxsFull.slot_hash_by_title: <<title, key>> pairs
    slot_hash_by_mixs_id,       \* MIxsFull.slot_hash_by_mixs_id: <<mixs_id, key>> pairs
    xpc             \* position of the MIxsFull object: new, built

vars == <<field_list, cleaned, recleaned, cpc, cell, truthy,
          fields, schemas, requests, response, calls, op, outcome, result,
          df_carl, df_ena, report, ppc,
          sheet_a, sheet_b, print_head, mpc, exit_code, fetched, df_a, df_b,
          pd_flag, printed, files,
          slots, all_field_names, all_field_titles, all_keys_main_slot_info,
          slot_hash_by_title, slot_hash_by_mixs_id, xpc>>

cleanVars == <<field_list, cleaned, recleaned, cpc>>
truthyVars == <<cell, truthy>>
clientVars == <<fields, schemas, requests, response, calls, op, outcome, result>>
processVars == <<df_carl, df_ena, report, ppc>>
mainVars == <<sheet_a, sheet_b, print_head, mpc, exit_code, fetched, df_a, df_b,
              pd_flag, printed, files>>
mixsVars == <<slots, all_field_names, all_field_titles, all_keys_main_slot_info,
              slot_hash_by_title, slot_hash_by_mixs_id, xpc>>

(***************************************************************************)
(* Bounds of the model.                                                    *)
(***************************************************************************)
\* longest term list built from the core terms
MaxItems == 4
\* longest generated string over TermAlphabet
MaxTermLen == 2
\* most whitespace characters padded on each side of a truthy word
MaxPad == 1
\* most records on the /fields page
MaxFields == 2
\* most entries in the /schemas/list collection
MaxSchemas == 2
\* most client operations in one run
MaxCalls == 2
\* most rows of Carl's sheet
MaxWish == 2
\* most rows of ENA's sheet
MaxRecommended == 2
\* most slots of the MIxS schema
MaxSlots == 3

(***************************************************************************)
(* Optional values.                                                        *)
(***************************************************************************)
None == <<>>
Some(x) == <<x>>

(***************************************************************************)
(* Python str: characters, ordering, whitespace, case.                     *)
(***************************************************************************)
\* The characters the model uses, in code-point order.
Ascii ==
    <<"\t", "\n", " ", "\"", "(", ")", "+", "-", ".", "/",
      "0", "1", "2", "3", "4", "5", "6", "7", "8", "9", "?",
      "A", "B", "C", "D", "E", "F", "G", "H", "I", "J", "K", "L", "M",
      "N", "O", "P", "Q", "R", "S", "T", "U", "V", "W", "X", "Y", "Z", "_",
      "a", "b", "c", "d", "e", "f", "g", "h", "i", "j", "k", "l", "m",
      "n", "o", "p", "q", "r", "s", "t", "u", "v", "w", "x", "y", "z">>

UpperCase == <<"A", "B", "C", "D", "E", "F", "G", "H", "I", "J", "K", "L", "M",
               "N", "O", "P", "Q", "R", "S", "T", "U", "V", "W", "X", "Y", "Z">>
LowerCase == <<"a", "b", "c", "d", "e", "f", "g", "h", "i", "j", "k", "l", "m",
               "n", "o", "p", "q", "r", "s", "t", "u", "v", "w", "x", "y", "z">>
Digits == <<"0", "1", "2", "3", "4", "5", "6", "7", "8", "9">>

\* ord(c), up to an order-preserving renumbering of the code points
ord(c) == CHOOSE i \in 1..Len(Ascii) : Ascii[i] = c

\* str.isspace() of one character; also the regular expression's \s
isspace(c) == c \in {" ", "\t", "\n"}

lower_char(c) ==
    IF \E i \in 1..Len(UpperCase) : UpperCase[i] = c
    THEN LowerCase[CHOOSE i \in 1..Len(UpperCase) : UpperCase[i] = c]
    ELSE c

upper_char(c) ==
    IF \E i \in 1..Len(LowerCase) : LowerCase[i] = c
    THEN UpperCase[CHOOSE i \in 1..Len(LowerCase) : LowerCase[i] = c]
    ELSE c

\* str.lower()
lower(s) == [i \in 1..Len(s) |-> lower_char(s[i])]

\* str.upper(), used to build inputs only
upper(s) == [i \in 1..Len(s) |-> upper_char(s[i])]

RECURSIVE lstrip(_)
lstrip(s) == IF s # <<>> /\ isspace(Head(s)) THEN lstrip(Tail(s)) ELSE s

RECURSIVE rstrip(_)
rstrip(s) ==
    IF s # <<>> /\ isspace(s[Len(s)]) THEN rstrip(SubSeq(s, 1, Len(s) - 1)) ELSE s

\* str.strip()
strip(s) == rstrip(lstrip(s))

\* s.split(sep)[0]: the text before the first sep, all of s when there is none
RECURSIVE split_first(_, _)
split_first(s, sep) ==
    IF s = <<>> \/ Head(s) = sep THEN <<>>
    ELSE <<Head(s)>> \o split_first(Tail(s), sep)

\* s.replace(old, ''), for a one-character old
RECURSIVE remove_char(_, _)
remove_char(s, old) ==
    IF s = <<>> THEN <<>>
    ELSE IF Head(s) = old THEN remove_char(Tail(s), old)
    ELSE <<Head(s)>> \o remove_char(Tail(s), old)

\* c in s
contains(s, c) == \E i \in 1..Len(s) : s[i] = c

\* a < b on Python strings: lexicographic on code points
RECURSIVE str_lt(_, _)
str_lt(a, b) ==
    IF b = <<>> THEN FALSE
    ELSE IF a = <<>> THEN TRUE
    ELSE IF Head(a) = Head(b) THEN str_lt(Tail(a), Tail(b))
    ELSE ord(Head(a)) < ord(Head(b))

\* str(n) of a Python int
RECURSIVE str_nat(_)
str_nat(n) == IF n < 10 THEN <<Digits[n + 1]>> ELSE str_nat(n \div 10) \o <<Digits[(n % 10) + 1]>>

str_int(n) == IF n < 0 THEN <<"-">> \o str_nat(-n) ELSE str_nat(n)

\* all sequences over S of length at most n
SeqsUpTo(S, n) == UNION {[1..k -> S] : k \in 0..n}

(***************************************************************************)
(* Cell values of a sheet column: None, NaN, bool, int, float, str.        *)
(* A float is whole.frac (str gives "1.5") or, from 1e16 up, mantissa and  *)
(* exponent (str gives "1e+20").                                           *)
(***************************************************************************)
NoneV == [t |-> "none", b |-> FALSE, n |-> 0, m |-> 0, s |-> <<>>]
NaNV == [t |-> "nan", b |-> FALSE, n |-> 0, m |-> 0, s |-> <<>>]
BoolV(b) == [t |-> "bool", b |-> b, n |-> 0, m |-> 0, s |-> <<>>]
IntV(n) == [t |-> "int", b |-> FALSE, n |-> n, m |-> 0, s |-> <<>>]
FloatV(w, f) == [t |-> "float", b |-> FALSE, n |-> w, m |-> f, s |-> <<>>]
SciV(m, e) == [t |-> "sci", b |-> FALSE, n |-> e, m |-> m, s |-> <<>>]
TextV(s) == [t |-> "text", b |-> FALSE, n |-> 0, m |-> 0, s |-> s]

\* str(item)
str(v) ==
    CASE v.t = "none" -> <<"N", "o", "n", "e">>
      [] v.t = "nan" -> <<"n", "a", "n">>
      [] v.t = "bool" -> IF v.b THEN <<"T", "r", "u", "e">> ELSE <<"F", "a", "l", "s", "e">>
      [] v.t = "int" -> str_int(v.n)
      [] v.t = "float" -> str_int(v.n) \o <<".">> \o str_nat(v.m)
      [] v.t = "sci" -> str_int(v.m) \o <<"e", "+">> \o str_nat(v.n)
      [] OTHER -> v.s

\* isinstance(item, float) and math.isnan(item)
is_nan(v) == v.t = "nan"

(***************************************************************************)
(* compare_aegis_sheets.py: clean_ena_field_list                           *)
(***************************************************************************)
\* the alternatives of non_terms_pattern, lower-cased (re.IGNORECASE)
NonTerms ==
    { <<"?">>, <<"t", "b", "d">>, <<"n", ".", "a", ".">>, <<"n", ".", "a", ".", "?">>,
      <<"e", "h", "?">>, <<"n", "o", "t", "_", "n", "e", "e", "d", "e", "d">> }

\* non_terms_pattern.match(s): ^\s*(alternatives)\s*$, ignoring case
non_terms_pattern_match(s) == lower(strip(s)) \in NonTerms

\* what one item adds to ena_ena_field_set: the body of the for loop
clean_item(item) ==
    IF item.t = "none" \/ is_nan(item) THEN {}
    ELSE IF non_terms_pattern_match(str(item)) THEN {}
    ELSE LET s == str(item) IN
         IF contains(s, "+")
         THEN {strip(remove_char(split_first(s, "+"), "\""))}
         ELSE {strip(s)}

\* clean_ena_field_list(field_list): the members of the returned list
RECURSIVE clean_ena_field_list(_)
clean_ena_field_list(l) ==
    IF l = <<>> THEN {}
    ELSE clean_item(Head(l)) \cup clean_ena_field_list(Tail(l))

\* the orders in which list(set) may hand back the members of a set
ListsOf(S) == {l \in [1..Cardinality(S) -> S] : \A x \in S : \E i \in DOMAIN l : l[i] = x}

\* inputs
TermAlphabet == {"?", "+", "\"", " ", "a"}

temp == <<"t", "e", "m", "p">>
ph == <<"p", "h">>
depth == <<"d", "e", "p", "t", "h">>

CoreTerms ==
    { TextV(temp), TextV(ph), TextV(<<"+", "x">>), TextV(<<"T", "B", "D">>),
      TextV(<<"T", "B", "D", "+", "x">>), NoneV }

OtherCells ==
    { NaNV, IntV(7), FloatV(1, 5), SciV(1, 20), BoolV(TRUE),
      TextV(<<" ", "p", "h", "\n">>), TextV(<<"\"", "p", "h", "\"", " ", "+", "u">>),
      TextV(<<"N", ".", "A", ".">>), TextV(<<"n", ".", "a", ".", "?">>),
      TextV(<<"E", "h", "?">>), TextV(<<"e", "h", "?", "+">>),
      TextV(<<"n", "o", "t", "_", "n", "e", "e", "d", "e", "d">>),
      TextV(<<"p", "h", "+", "a", "+", "b">>), TextV(depth) }

TermLists ==
    SeqsUpTo(CoreTerms, MaxItems)
    \cup {<<v>> : v \in OtherCells}
    \cup {<<TextV(s)>> : s \in SeqsUpTo(TermAlphabet, MaxTermLen)}

\* the endpoints the client requests
Paths == {"/fields", "/schemas/list"}

IdleClean == field_list = <<>> /\ cleaned = {} /\ recleaned = {} /\ cpc = "idle"
IdleTruthy == cell = NoneV /\ truthy = <<>>
IdleClient ==
    /\ fields = <<>> /\ schemas = <<>>
    /\ requests = [p \in Paths |-> 0] /\ response = "none"
    /\ calls = 0 /\ op = <<"none">> /\ outcome = "none" /\ result = <<>>
IdleProcess == df_carl = <<>> /\ df_ena = <<>> /\ report = <<>> /\ ppc = "idle"
IdleMain ==
    /\ sheet_a = <<>> /\ sheet_b = <<>> /\ print_head = 0 /\ mpc = "idle"
    /\ exit_code = <<>> /\ fetched = [s \in {"A", "B"} |-> "no"]
    /\ df_a = "none" /\ df_b = "none" /\ pd_flag = <<>> /\ printed = <<>>
    /\ files = {}
IdleMixs ==
    /\ slots = <<>> /\ all_field_names = <<>> /\ all_field_titles = <<>>
    /\ all_keys_main_slot_info = <<>> /\ slot_hash_by_title = {}
    /\ slot_hash_by_mixs_id = {} /\ xpc = "idle"

InitClean ==
    /\ field_list \in TermLists
    /\ cleaned = {} /\ recleaned = {} /\ cpc = "start"
    /\ IdleTruthy /\ IdleClient /\ IdleProcess /\ IdleMain /\ IdleMixs

\* clean_ena_field_list(field_list)
Clean ==
    /\ cpc = "start"
    /\ cleaned' = clean_ena_field_list(field_list)
    /\ cpc' = "cleaned"
    /\ UNCHANGED <<field_list, recleaned, truthyVars, clientVars, processVars, mainVars, mixsVars>>

\* clean_ena_field_list(clean_ena_field_list(field_list))
Reclean ==
    /\ cpc = "cleaned"
    /\ \E l \in ListsOf(cleaned) :
          recleaned' = clean_ena_field_list([i \in DOMAIN l |-> TextV(l[i])])
    /\ cpc' = "recleaned"
    /\ UNCHANGED <<field_list, cleaned, truthyVars, clientVars, processVars, mainVars, mixsVars>>

NextClean == Clean \/ Reclean

SpecClean == InitClean /\ [][NextClean]_vars

(***************************************************************************)
(* compare_aegis_sheets.py: _is_truthy                                     *)
(***************************************************************************)
\* the set literal of the last line of _is_truthy
TruthyStrings ==
    { <<"t", "r", "u", "e">>, <<"t">>, <<"y", "e", "s">>, <<"y">>, <<"1">> }

\* a plausible slip: Python truthiness of the integer instead of v == 1
is_truthy_int_nonzero(v) ==
    IF v.t = "bool" THEN v.b
    ELSE IF v.t = "none" THEN FALSE
    ELSE IF v.t = "nan" THEN FALSE
    ELSE IF v.t = "int" THEN v.n # 0
    ELSE lower(strip(str(v))) \in TruthyStrings

\* _is_truthy(v)
_is_truthy(v) ==
    IF v.t = "bool" THEN v.b
    ELSE IF v.t = "none" THEN FALSE
    ELSE IF is_nan(v) THEN FALSE
    ELSE IF v.t = "int" THEN v.n = 1
    ELSE lower(strip(str(v))) \in TruthyStrings

\* inputs: words in three casings, padded with whitespace on both sides
TruthyWords ==
    { <<"t", "r", "u", "e">>, <<"t">>, <<"y", "e", "s">>, <<"y">>, <<"1">>,
      <<"f", "a", "l", "s", "e">>, <<"n", "o">>, <<"0">>, <<"1", ".", "0">>,
      <<"o", "n">>, <<"t", "r">>, <<>>, <<"1", "1">>, <<"y", " ", "e", "s">>,
      <<"n", "a", "n">>, <<"n", "o", "n", "e">> }

capitalize(s) == IF s = <<>> THEN s ELSE <<upper_char(s[1])>> \o Tail(s)

Pads == SeqsUpTo({" ", "\n"}, MaxPad)

TruthyTexts ==
    { l \o c \o r : l \in Pads, r \in Pads,
      c \in UNION {{w, upper(w), capitalize(w)} : w \in TruthyWords} }

CellValues ==
    { NoneV, NaNV, BoolV(TRUE), BoolV(FALSE),
      FloatV(1, 0), FloatV(0, 0), FloatV(1, 5), SciV(1, 20) }
    \cup {IntV(n) : n \in -1..3}
    \cup {TextV(s) : s \in TruthyTexts}

InitTruthy ==
    /\ cell \in CellValues
    /\ truthy = <<>>
    /\ IdleClean /\ IdleClient /\ IdleProcess /\ IdleMain /\ IdleMixs

\* mask = column.map(_is_truthy), for one cell
IsTruthy ==
    /\ truthy = <<>>
    /\ truthy' = <<_is_truthy(cell)>>
    /\ UNCHANGED <<cell, cleanVars, clientVars, processVars, mainVars, mixsVars>>

NextTruthy == IsTruthy

SpecTruthy == InitTruthy /\ [][NextTruthy]_vars

(***************************************************************************)
(* get_ena_checklist_details.py: ENASchemaStoreClient                      *)
(*                                                                         *)
(* A field record is [label, lastModifiedDate, version], each optional.    *)
(* A schema entry is [isdict, id, accession, name]: isdict is FALSE for an *)
(* entry that is not a JSON object; id is an optional str or int.          *)
(***************************************************************************)
\* k1 < k2 on keys <<str, int>>: Python's tuple comparison
key_lt(k1, k2) == str_lt(k1[1], k2[1]) \/ (k1[1] = k2[1] /\ k1[2] < k2[2])

\* where x goes in the sorted r: behind every element that does not sort after it
insert_at(r, x, reverse) ==
    LET after == {i \in 1..Len(r) :
                     IF reverse THEN key_lt(r[i][1], x[1]) ELSE key_lt(x[1], r[i][1])}
    IN IF after = {} THEN Len(r) + 1
       ELSE CHOOSE i \in after : \A j \in after : i <= j

\* sorted(...) and list.sort(...) on <<key, item>> pairs: stable, also with
\* reverse=True (equal keys keep the order they came in)
RECURSIVE sort_pairs(_, _)
sort_pairs(s, reverse) ==
    IF s = <<>> THEN <<>>
    ELSE LET r == sort_pairs(SubSeq(s, 1, Len(s) - 1), reverse)
             x == s[Len(s)]
             k == insert_at(r, x, reverse)
         IN SubSeq(r, 1, k - 1) \o <<x>> \o SubSeq(r, k, Len(r))

\* f.get("label") is truthy: present and not the empty string
has_label(f) == f.label # None /\ f.label[1] # <<>>

\* a plausible slip: sorted(labels) without the lower-casing key
list_field_names_plain_sort(page) ==
    LET kept == SelectSeq(page, has_label)
        labels == [i \in 1..Len(kept) |-> kept[i].label[1]]
        by_key == sort_pairs([i \in 1..Len(labels) |-> <<<<labels[i], 0>>, labels[i]>>],
                             FALSE)
    IN [i \in 1..Len(by_key) |-> by_key[i][2]]

\* the data handling of list_field_names, lines 66-69
list_field_names(page) ==
    LET kept == SelectSeq(page, has_label)
        labels == [i \in 1..Len(kept) |-> kept[i].label[1]]
        by_key == sort_pairs([i \in 1..Len(labels) |-> <<<<lower(labels[i]), 0>>, labels[i]>>],
                             FALSE)
    IN [i \in 1..Len(by_key) |-> by_key[i][2]]

\* sort_key(f): (lastModifiedDate or "", version or -1)
sort_key(f) ==
    << IF f.lastModifiedDate = None THEN <<>> ELSE f.lastModifiedDate[1],
       IF f.version = None \/ f.version = Some(0) THEN -1 ELSE f.version[1] >>

\* the data handling of get_latest_field_details, lines 81-95
get_latest_field_details(page, field_name) ==
    LET is_match(f) == f.label = Some(field_name)
        matched == SelectSeq(page, is_match)
        by_key == sort_pairs([i \in 1..Len(matched) |-> <<sort_key(matched[i]), matched[i]>>],
                             TRUE)
    IN IF matched = <<>> THEN None ELSE Some(by_key[1][2])

\* schemas_container as the response carries it
Container(shape, entries) ==
    CASE shape = "mapping" -> [kind |-> "dict", items |-> entries]
      [] shape = "list" ->
            [kind |-> "list", items |-> [i \in 1..Len(entries) |-> entries[i][2]]]
      [] OTHER -> [kind |-> "other", items |-> <<>>]

\* a plausible slip: "for val in schemas_container" walks the keys of a dict
list_schemas_over_keys(container) ==
    LET values ==
            IF container.kind = "list" THEN container.items ELSE <<>>
        ok(val) == val.isdict /\ val.id # None
        kept == SelectSeq(values, ok)
    IN [i \in 1..Len(kept) |-> <<str(kept[i].id[1]), kept[i].accession, kept[i].name>>]

\* a plausible slip: "if not sid" instead of "if sid is None"
list_schemas_skip_falsy_id(container) ==
    LET values ==
            IF container.kind = "dict"
            THEN [i \in 1..Len(container.items) |-> container.items[i][2]]
            ELSE IF container.kind = "list" THEN container.items
            ELSE <<>>
        ok(val) == /\ val.isdict /\ val.id # None
                   /\ val.id[1] \notin {IntV(0), TextV(<<>>)}
        kept == SelectSeq(values, ok)
    IN [i \in 1..Len(kept) |-> <<str(kept[i].id[1]), kept[i].accession, kept[i].name>>]

\* the data handling of list_schemas, lines 107-131
list_schemas(container) ==
    LET values ==
            IF container.kind = "dict"
            THEN [i \in 1..Len(container.items) |-> container.items[i][2]]
            ELSE IF container.kind = "list" THEN container.items
            ELSE <<>>
        ok(val) == val.isdict /\ val.id # None
        kept == SelectSeq(values, ok)
    IN [i \in 1..Len(kept) |-> <<str(kept[i].id[1]), kept[i].accession, kept[i].name>>]

\* how session.get and raise_for_status can end
Responses == {"ok", "connection_error", "timeout", "http_error"}

\* resp.raise_for_status(), and session.get itself, raise unless all went well
raises(resp) == resp # "ok"

\* a plausible slip: answer a path already requested from memory
get_cached(path, resp) ==
    /\ requests' = IF requests[path] > 0 THEN requests
                   ELSE [requests EXCEPT ![path] = @ + 1]
    /\ response' = resp

\* a plausible slip: try once more when the request failed
get_retrying(path, resp) ==
    /\ requests' = [requests EXCEPT ![path] = IF raises(resp) THEN @ + 2 ELSE @ + 1]
    /\ response' = resp

\* _get(path): one session.get, however it ends
_get(path, resp) ==
    /\ requests' = [requests EXCEPT ![path] = @ + 1]
    /\ response' = resp

\* registry contents
d2024 == <<"2", "0", "2", "4", "-", "0", "1", "-", "0", "1">>
d2025 == <<"2", "0", "2", "5", "-", "0", "1", "-", "0", "1">>

FieldRecords ==
    [label : {Some(ph)}, lastModifiedDate : {None, Some(d2024), Some(d2025)},
     version : {None, Some(0), Some(1)}]
    \cup [label : {None, Some(<<>>), Some(temp), Some(upper(ph))},
          lastModifiedDate : {None}, version : {None}]

SchemaEntries ==
    [isdict : {TRUE}, id : {None, Some(TextV(<<"S", "1">>)), Some(IntV(0))},
     accession : {None, Some(<<"E", "R", "C", "1">>)}, name : {None, Some(<<"n", "1">>)}]
    \cup {[isdict |-> FALSE, id |-> None, accession |-> None, name |-> None]}

\* the i-th entry of a keyed collection gets the key str(i)
Keyed(es) == [i \in 1..Len(es) |-> <<str_nat(i), es[i]>>]

QueryLabels == {ph, temp, depth}

InitClient ==
    /\ \/ fields \in SeqsUpTo(FieldRecords, MaxFields) /\ schemas = <<>>
       \/ fields = <<>> /\ schemas \in {Keyed(es) : es \in SeqsUpTo(SchemaEntries, MaxSchemas)}
    /\ requests = [p \in Paths |-> 0] /\ response = "none"
    /\ calls = 0 /\ op = <<"none">> /\ outcome = "none" /\ result = <<>>
    /\ IdleClean /\ IdleTruthy /\ IdleProcess /\ IdleMain /\ IdleMixs

\* client.list_field_names()
ListFieldNames ==
    /\ calls < MaxCalls
    /\ \E resp \in Responses :
          /\ _get("/fields", resp)
          /\ IF ~raises(resp)
             THEN outcome' = "returned" /\ result' = Some(list_field_names(fields))
             ELSE outcome' = "raised" /\ result' = <<>>
    /\ calls' = calls + 1
    /\ op' = <<"list_field_names">>
    /\ UNCHANGED <<fields, schemas, cleanVars, truthyVars, processVars, mainVars, mixsVars>>

\* client.get_latest_field_details(field_name)
GetLatestFieldDetails ==
    /\ calls < MaxCalls
    /\ \E field_name \in QueryLabels, resp \in Responses :
          /\ _get("/fields", resp)
          /\ IF ~raises(resp)
             THEN /\ outcome' = "returned"
                  /\ result' = Some(get_latest_field_details(fields, field_name))
             ELSE outcome' = "raised" /\ result' = <<>>
          /\ op' = <<"get_latest_field_details", field_name>>
    /\ calls' = calls + 1
    /\ UNCHANGED <<fields, schemas, cleanVars, truthyVars, processVars, mainVars, mixsVars>>

\* client.list_schemas(); the registry answers in one of the shapes
ListSchemas ==
    /\ calls < MaxCalls
    /\ \E shape \in {"mapping", "list", "other"}, resp \in Responses :
          /\ _get("/schemas/list", resp)
          /\ IF ~raises(resp)
             THEN /\ outcome' = "returned"
                  /\ result' = Some(list_schemas(Container(shape, schemas)))
             ELSE outcome' = "raised" /\ result' = <<>>
          /\ op' = <<"list_schemas", shape>>
    /\ calls' = calls + 1
    /\ UNCHANGED <<fields, schemas, cleanVars, truthyVars, processVars, mainVars, mixsVars>>

NextClient == ListFieldNames \/ GetLatestFieldDetails \/ ListSchemas

SpecClient == InitClient /\ [][NextClient]_vars

(***************************************************************************)
(* compare_aegis_sheets.py: process(df_ena, df_carl)                       *)
(*                                                                         *)
(* df_carl is its 'ENA wish' column; df_ena is its rows, each with the     *)
(* 'ENA recommended' and the 'Needs New Term in ENA' cell.  Both are       *)
(* DataFrames with these columns.                                          *)
(***************************************************************************)
\* ENASchemaStoreClient.__init__: the baseline field lists
mandatory_ena_fields ==
    { <<"t", "a", "x", "_", "i", "d">>,
      <<"c", "o", "l", "l", "e", "c", "t", "i", "o", "n", " ", "d", "a", "t", "e">>,
      <<"s", "a", "m", "p", "l", "e", "_", "a", "l", "i", "a", "s">>,
      <<"s", "a", "m", "p", "l", "e", "_", "d", "e", "s", "c", "r", "i", "p", "t", "i", "o", "n">>,
      <<"s", "a", "m", "p", "l", "e", "_", "t", "i", "t", "l", "e">>,
      <<"s", "c", "i", "e", "n", "t", "i", "f", "i", "c", "_", "n", "a", "m", "e">>,
      <<"g", "e", "o", "g", "r", "a", "p", "h", "i", "c", " ", "l", "o", "c", "a", "t", "i", "o", "n", " ", "(", "c", "o", "u", "n", "t", "r", "y", " ", "a", "n", "d", "/", "o", "r", " ", "s", "e", "a", ")">> }

experiment_ena_fields_mandatory ==
    { <<"p", "l", "a", "t", "f", "o", "r", "m">>,
      <<"i", "n", "s", "t", "r", "u", "m", "e", "n", "t", "_", "m", "o", "d", "e", "l">>,
      <<"l", "i", "b", "r", "a", "r", "y", "_", "s", "t", "r", "a", "t", "e", "g", "y">>,
      <<"l", "i", "b", "r", "a", "r", "y", "_", "s", "o", "u", "r", "c", "e">>,
      <<"l", "i", "b", "r", "a", "r", "y", "_", "s", "e", "l", "e", "c", "t", "i", "o", "n">>,
      <<"l", "i", "b", "r", "a", "r", "y", "_", "n", "a", "m", "e">>,
      <<"l", "i", "b", "r", "a", "r", "y", "_", "l", "a", "y", "o", "u", "t">> }

experiment_ena_fields_all ==
    { <<"d", "e", "s", "i", "g", "n", "_", "d", "e", "s", "c", "r", "i", "p", "t", "i", "o", "n">>,
      <<"l", "i", "b", "r", "a", "r", "y", "_", "l", "a", "y", "o", "u", "t">>,
      <<"l", "i", "b", "r", "a", "r", "y", "_", "s", "t", "r", "a", "t", "e", "g", "y">>,
      <<"l", "i", "b", "r", "a", "r", "y", "_", "s", "o", "u", "r", "c", "e">>,
      <<"l", "i", "b", "r", "a", "r", "y", "_", "s", "e", "l", "e", "c", "t", "i", "o", "n">>,
      <<"l", "i", "b", "r", "a", "r", "y", "_", "n", "a", "m", "e">>,
      <<"l", "i", "b", "r", "a", "r", "y", "_", "d", "e", "s", "c", "r", "i", "p", "t", "i", "o", "n">>,
      <<"i", "n", "s", "e", "r", "t", "_", "s", "i", "z", "e">>,
      <<"p", "l", "a", "t", "f", "o", "r", "m">>,
      <<"i", "n", "s", "t", "r", "u", "m", "e", "n", "t", "_", "m", "o", "d", "e", "l">>,
      <<"i", "n", "s", "t", "r", "u", "m", "e", "n", "t", "_", "m", "e", "t", "a", "d", "a", "t", "a">>,
      <<"s", "e", "q", "u", "e", "n", "c", "i", "n", "g", "_", "p", "r", "o", "t", "o", "c", "o", "l">> }

\* sorted(S) of a set of distinct strings
RECURSIVE sorted_set(_)
sorted_set(S) ==
    IF S = {} THEN <<>>
    ELSE LET least == CHOOSE x \in S : \A y \in S \ {x} : str_lt(x, y)
         IN <<least>> \o sorted_set(S \ {least})

\* df_ena['ENA recommended'].tolist()
recommended_column(rows) == [i \in 1..Len(rows) |-> rows[i].recommended]

\* set(df_ena.loc[mask, 'ENA recommended'].tolist()), mask being the
\* 'Needs New Term in ENA' column mapped through _is_truthy: the raw cells
ena_ena_field_new_set(rows) ==
    {rows[i].recommended : i \in {j \in 1..Len(rows) : _is_truthy(rows[j].needs_new)}}

\* a plausible slip: the ENA-only terms taken as the symmetric difference
term_differences_symmetric(A, B, new_set) ==
    [ carl_ena_field_set |-> A,
      ena_ena_field_set |-> B,
      common |-> sorted_set(B \cap A),
      new_on_carl |-> sorted_set({a \in A : TextV(a) \in new_set}),
      carl_diff_terms |-> sorted_set(A \ B),
      carl_only |-> A \ B,
      carl_only_not_experiment |-> (A \ B) \ experiment_ena_fields_all,
      ena_only |-> (B \ A) \cup (A \ B) ]

\* lines 264-290: the sets process prints and logs, A being
\* carl_ena_field_set and B ena_ena_field_set
term_differences(A, B, new_set) ==
    [ carl_ena_field_set |-> A,
      ena_ena_field_set |-> B,
      common |-> sorted_set(B \cap A),
      new_on_carl |-> sorted_set({a \in A : TextV(a) \in new_set}),
      carl_diff_terms |-> sorted_set(A \ B),
      carl_only |-> A \ B,
      carl_only_not_experiment |-> (A \ B) \ experiment_ena_fields_all,
      ena_only |-> B \ A ]

\* a plausible slip: the count of the fields still missing as the numerator
mandatory_coverage_missing(B) ==
    [ numerator |-> Cardinality(mandatory_ena_fields \ B),
      denominator |-> Cardinality(mandatory_ena_fields),
      remaining |-> sorted_set(mandatory_ena_fields \ B) ]

\* line 294: "n/d mandatory fields in ENA, remaining: [...]"
mandatory_coverage(B) ==
    [ numerator |-> Cardinality(mandatory_ena_fields)
                      - Cardinality(mandatory_ena_fields \ B),
      denominator |-> Cardinality(mandatory_ena_fields),
      remaining |-> sorted_set(mandatory_ena_fields \ B) ]

\* sheet contents
WishCells ==
    { TextV(temp), TextV(ph), TextV(<<"T", "B", "D", "+", "x">>),
      TextV(<<"p", "l", "a", "t", "f", "o", "r", "m">>) }

tax_id == <<"t", "a", "x", "_", "i", "d">>
collection_date == <<"c", "o", "l", "l", "e", "c", "t", "i", "o", "n", " ", "d", "a", "t", "e">>

EnaRows ==
    { [recommended |-> TextV(temp), needs_new |-> BoolV(TRUE)],
      [recommended |-> TextV(temp), needs_new |-> NaNV],
      [recommended |-> TextV(depth), needs_new |-> BoolV(FALSE)],
      [recommended |-> TextV(<<"p", "h", "+", "u">>), needs_new |-> TextV(<<"Y", "e", "s">>)],
      [recommended |-> TextV(<<"T", "B", "D">>), needs_new |-> IntV(1)],
      [recommended |-> TextV(tax_id), needs_new |-> NaNV],
      [recommended |-> TextV(collection_date), needs_new |-> TextV(<<"n", "o">>)] }

InitProcess ==
    /\ df_carl \in SeqsUpTo(WishCells, MaxWish)
    /\ df_ena \in SeqsUpTo(EnaRows, MaxRecommended)
    /\ report = <<>> /\ ppc = "start"
    /\ IdleClean /\ IdleTruthy /\ IdleClient /\ IdleMain /\ IdleMixs

\* process(df_ena, df_carl)
Process ==
    /\ ppc = "start"
    /\ \E resp \in Responses :
          \* ena_client.list_field_names(), its result not used
          /\ _get("/fields", resp)
          /\ calls' = calls + 1
          /\ op' = <<"list_field_names">>
          /\ IF raises(resp)
             THEN /\ outcome' = "raised" /\ result' = <<>>
                  /\ ppc' = "raised" /\ report' = <<>>
             ELSE /\ outcome' = "returned" /\ result' = Some(list_field_names(fields))
                  /\ LET A == clean_ena_field_list(df_carl)
                         B == clean_ena_field_list(recommended_column(df_ena))
                         new_set == ena_ena_field_new_set(df_ena)
                     IN report' = << [ terms |-> term_differences(A, B, new_set),
                                       new_set |-> new_set,
                                       mandatory |-> mandatory_coverage(B) ] >>
                  /\ ppc' = "done"
    /\ UNCHANGED <<fields, schemas, df_carl, df_ena, cleanVars, truthyVars, mainVars, mixsVars>>

NextProcess == Process

SpecProcess == InitProcess /\ [][NextProcess]_vars

(***************************************************************************)
(* compare_aegis_sheets.py: main()                                         *)
(*                                                                         *)
(* mpc is the position of main: "start", "validated", "fetched_a",         *)
(* "fetched_b", "loaded", then "done"; "exited" after sys.exit and         *)
(* "raised" after an exception that main does not catch.  fetched records  *)
(* per sheet whether its CSV export was requested and how it ended;        *)
(* printed is what main printed or logged about the sheets' contents;      *)
(* files is the set of files opened for writing.  The gid of a sheet only  *)
(* changes the query of the export URL and is left out.                    *)
(***************************************************************************)
startswith(s, prefix) ==
    Len(s) >= Len(prefix) /\ SubSeq(s, 1, Len(prefix)) = prefix

\* the longest prefix of s that has no character of stops
RECURSIVE take_until(_, _)
take_until(s, stops) ==
    IF s = <<>> \/ Head(s) \in stops THEN <<>>
    ELSE <<Head(s)>> \o take_until(Tail(s), stops)

\* the longest prefix of s made of characters of chars
RECURSIVE take_while(_, _)
take_while(s, chars) ==
    IF s = <<>> \/ Head(s) \notin chars THEN <<>>
    ELSE <<Head(s)>> \o take_while(Tail(s), chars)

drop(s, n) == SubSeq(s, n + 1, Len(s))

\* urlparse(url).path of an http or https URL: what follows the network
\* location, up to the query or the fragment
urlparse_path(url) ==
    LET rest == drop(url, Len(take_until(url, {":"})) + 3)
        netloc == take_until(rest, {"/", "?", "#"})
    IN take_until(drop(rest, Len(netloc)), {"?", "#"})

\* [\w-] of a str pattern, on ASCII text
WordOrHyphen ==
    {UpperCase[i] : i \in 1..Len(UpperCase)} \cup {LowerCase[i] : i \in 1..Len(LowerCase)}
    \cup {Digits[i] : i \in 1..Len(Digits)} \cup {"_", "-"}

spreadsheets_d == <<"/", "s", "p", "r", "e", "a", "d", "s", "h", "e", "e", "t", "s", "/", "d", "/">>

\* re.search(r"/spreadsheets/d/([\w-]+)", path): group 1 of the leftmost
\* match, or None
search_spreadsheets_d(path) ==
    LET n == Len(spreadsheets_d)
        hits == {i \in 1..Len(path) :
                    /\ startswith(drop(path, i - 1), spreadsheets_d)
                    /\ take_while(drop(path, i - 1 + n), WordOrHyphen) # <<>>}
    IN IF hits = {} THEN None
       ELSE LET i == CHOOSE h \in hits : \A k \in hits : h <= k
            IN Some(take_while(drop(path, i - 1 + n), WordOrHyphen))

\* _extract_sheet_id_and_gid(url_or_id)[0]
_extract_sheet_id_and_gid(url_or_id) ==
    IF \/ startswith(url_or_id, <<"h", "t", "t", "p", ":", "/", "/">>)
       \/ startswith(url_or_id, <<"h", "t", "t", "p", "s", ":", "/", "/">>)
    THEN search_spreadsheets_d(urlparse_path(url_or_id))
    ELSE Some(url_or_id)

\* not sid
not_sid(sid) == sid = None \/ sid = Some(<<>>)

\* a plausible slip: only the first sheet is validated
first_unparsable_sheet_a_only(a, b) ==
    IF not_sid(_extract_sheet_id_and_gid(a)) THEN Some("A") ELSE None

\* lines 352-357: the label of the sheet at which the loop exits, if any
first_unparsable_sheet(a, b) ==
    IF not_sid(_extract_sheet_id_and_gid(a)) THEN Some("A")
    ELSE IF not_sid(_extract_sheet_id_and_gid(b)) THEN Some("B")
    ELSE None

\* urllib.request.urlopen(url): the outcomes of one export request
ExportOutcomes == {"ok", "http_403", "network_error"}

\* what line 369-387 can meet: pandas missing, both loads fine, or
\* pd.read_csv raising on sheet A or on sheet B
PandasOutcomes == {"missing", "loaded", "load_a_failed", "load_b_failed"}

\* what write_draft_checklists can meet with a DataFrame: all columns and
\* the directory present, no ../data/checklist/ directory, or a sheet
\* without the 'Confidence to add' column
WriteOutcomes == {"written", "no_directory", "no_confidence_column"}

high_confidence_md == "ENA_AEGIS_draft_checklists_high_confidence.md"
all_confidences_md == "ENA_AEGIS_draft_checklists_all_confidences.md"

\* --sheet-a, --sheet-b
SheetArgs ==
    { <<"h", "t", "t", "p", "s", ":", "/", "/", "g", "/", "s", "p", "r", "e", "a", "d", "s", "h", "e", "e", "t", "s", "/", "d", "/", "1", "E", "-", "W", "/", "e", "d", "i", "t", "?", "g", "i", "d", "=", "0">>,
      <<"h", "t", "t", "p", ":", "/", "/", "g", "/", "s", "p", "r", "e", "a", "d", "s", "h", "e", "e", "t", "s", "/", "d", "/", "9", "z">>,
      <<"h", "t", "t", "p", "s", ":", "/", "/", "g", "/", "e", "d", "i", "t", "?", "x", "=", "/", "s", "p", "r", "e", "a", "d", "s", "h", "e", "e", "t", "s", "/", "d", "/", "1", "E">>,
      <<"h", "t", "t", "p", "s", ":", "/", "/", "g", "/", "s", "p", "r", "e", "a", "d", "s", "h", "e", "e", "t", "s", "/", "d", "/", "/", "e", "d", "i", "t">>,
      <<"h", "t", "t", "p", "s", ":", "/", "/", "g", "/", "s", "p", "r", "e", "a", "d", "s", "h", "e", "e", "t", "s", "/", "d", "/", "/", "s", "p", "r", "e", "a", "d", "s", "h", "e", "e", "t", "s", "/", "d", "/", "k", "_", "1", "#", "g", "i", "d", "=", "3">>,
      <<"1", "C", "9", "Z">>,
      <<>> }

\* --print-head
PrintHeads == {-1, 0, 2}

max0(n) == IF n > 0 THEN n ELSE 0

\* the rows line and, with max(0, print_head) > 0, the preview of each sheet
previews(n) ==
    <<<<"rows", "A">>, <<"rows", "B">>>>
    \o (IF n > 0 THEN <<<<"head", "A">>, <<"head", "B">>>> ELSE <<>>)

InitMain ==
    /\ sheet_a \in SheetArgs /\ sheet_b \in SheetArgs
    /\ print_head \in PrintHeads
    /\ mpc = "start" /\ exit_code = <<>>
    /\ fetched = [s \in {"A", "B"} |-> "no"]
    /\ df_a = "none" /\ df_b = "none" /\ pd_flag = <<>> /\ printed = <<>>
    /\ files = {}
    /\ IdleClean /\ IdleTruthy /\ IdleClient /\ IdleProcess /\ IdleMixs

\* lines 351-357
MainValidate ==
    /\ mpc = "start"
    /\ IF first_unparsable_sheet(sheet_a, sheet_b) # None
       THEN mpc' = "exited" /\ exit_code' = Some(2)
       ELSE mpc' = "validated" /\ exit_code' = exit_code
    /\ UNCHANGED <<sheet_a, sheet_b, print_head, fetched, df_a, df_b, pd_flag, printed, files>>
    /\ UNCHANGED <<cleanVars, truthyVars, clientVars, processVars, mixsVars>>

\* line 362: csv_a = _fetch_csv_bytes(sid_a, gid_a)
MainFetchA ==
    /\ mpc = "validated"
    /\ \E outcome_a \in ExportOutcomes :
          /\ fetched' = [fetched EXCEPT !["A"] = IF outcome_a = "ok" THEN "ok" ELSE "failed"]
          /\ mpc' = IF outcome_a = "ok" THEN "fetched_a" ELSE "raised"
    /\ UNCHANGED <<sheet_a, sheet_b, print_head, exit_code, df_a, df_b, pd_flag, printed, files>>
    /\ UNCHANGED <<cleanVars, truthyVars, clientVars, processVars, mixsVars>>

\* line 363: csv_b = _fetch_csv_bytes(sid_b, gid_b)
MainFetchB ==
    /\ mpc = "fetched_a"
    /\ \E outcome_b \in ExportOutcomes :
          /\ fetched' = [fetched EXCEPT !["B"] = IF outcome_b = "ok" THEN "ok" ELSE "failed"]
          /\ mpc' = IF outcome_b = "ok" THEN "fetched_b" ELSE "raised"
    /\ UNCHANGED <<sheet_a, sheet_b, print_head, exit_code, df_a, df_b, pd_flag, printed, files>>
    /\ UNCHANGED <<cleanVars, truthyVars, clientVars, processVars, mixsVars>>

\* lines 365-406: the pandas preview, or the csv-module preview
MainLoad ==
    /\ mpc = "fetched_b"
    /\ \E pandas \in PandasOutcomes :
          /\ df_a' = IF pandas \in {"loaded", "load_b_failed"} THEN "frame" ELSE "none"
          /\ df_b' = IF pandas = "loaded" THEN "frame" ELSE "none"
          /\ pd_flag' = Some(pandas = "loaded")
          /\ printed' = previews(max0(print_head))
    /\ mpc' = "loaded"
    /\ UNCHANGED <<sheet_a, sheet_b, print_head, exit_code, fetched, files>>
    /\ UNCHANGED <<cleanVars, truthyVars, clientVars, processVars, mixsVars>>

\* line 409: write_draft_checklists(df_a, "../data/checklist/")
MainWrite ==
    /\ mpc = "loaded"
    /\ IF df_a = "none"
       THEN \* line 300: None has no attribute 'columns'
            mpc' = "raised" /\ files' = files
       ELSE \E w \in WriteOutcomes :
               /\ mpc' = IF w = "written" THEN "done" ELSE "raised"
               /\ files' = CASE w = "written" -> {high_confidence_md, all_confidences_md}
                             [] w = "no_directory" -> files
                             [] w = "no_confidence_column" -> {high_confidence_md}
    /\ UNCHANGED <<sheet_a, sheet_b, print_head, exit_code, fetched, df_a, df_b, pd_flag, printed>>
    /\ UNCHANGED <<cleanVars, truthyVars, clientVars, processVars, mixsVars>>

NextMain == MainValidate \/ MainFetchA \/ MainFetchB \/ MainLoad \/ MainWrite

SpecMain == InitMain /\ [][NextMain]_vars

(***************************************************************************)
(* mixs_obj.py: MIxsFull                                                   *)
(*                                                                         *)
(* slots is the 'slots' mapping of mixs.yaml in file order: a sequence of  *)
(* records with a key, an optional title, an optional mixs_id and the      *)
(* 'name' entry that populate_all_keys_slot_info adds.  The two hashes are *)
(* sets of <<title or mixs_id, key of the slot stored there>>.             *)
(***************************************************************************)
_data == <<"_", "d", "a", "t", "a">>

endswith(s, suffix) ==
    Len(s) >= Len(suffix) /\ SubSeq(s, Len(s) - Len(suffix) + 1, Len(s)) = suffix

\* re.search(r'_data$', key): $ matches at the end of the string and also
\* just before a newline that ends the string
search_data_end(key) ==
    endswith(key, _data) \/ endswith(key, _data \o <<"\n">>)

\* value.get('title', '')
get_title(value) == IF value.title = None THEN <<>> ELSE value.title[1]

\* lines 101-107: the loop over self.slots.items(), appending to the lists
RECURSIVE append_fields(_, _)
append_fields(items, lists) ==
    IF items = <<>> THEN lists
    ELSE append_fields(Tail(items),
            IF search_data_end(Head(items).key) THEN lists
            ELSE [all_field_names |-> Append(lists.all_field_names, Head(items).key),
                  all_field_titles |-> Append(lists.all_field_titles, get_title(Head(items)))])

\* get_all_field_names(self): the two lists after the call
get_all_field_names(items, lists) ==
    IF Len(lists.all_field_names) > 0 THEN lists
    ELSE append_fields(items, lists)

\* get_all_field_titles(self): the two lists after the call
get_all_field_titles(items, lists) ==
    IF Len(lists.all_field_titles) > 0 THEN lists
    ELSE get_all_field_names(items, lists)

\* lines 83-87: hash[k] = value for each <<k, key of the slot>> in order, a
\* later slot with the same k replacing an earlier one
slot_hash(pairs) ==
    {pairs[i] : i \in {j \in 1..Len(pairs) :
        \A l \in (j + 1)..Len(pairs) : pairs[l][1] # pairs[j][1]}}

SlotKeys ==
    { <<"a">>,
      <<"b", "_", "d", "a", "t", "a">>,
      <<"b", "_", "d", "a", "t", "a", "\n">>,
      <<"_", "d", "a", "t", "a", "x">> }

SlotValues ==
    { [title |-> None, mixs_id |-> None],
      [title |-> Some(<<"T">>), mixs_id |-> None],
      [title |-> Some(<<"T">>), mixs_id |-> Some(<<"M", "1">>)] }

SlotItems ==
    {[key |-> k, title |-> v.title, mixs_id |-> v.mixs_id, name |-> None] :
        k \in SlotKeys, v \in SlotValues}

\* a mapping has each key once
SlotMappings ==
    {s \in SeqsUpTo(SlotItems, MaxSlots) :
        \A i, j \in 1..Len(s) : i # j => s[i].key # s[j].key}

InitMixs ==
    /\ slots \in SlotMappings
    /\ all_field_names = <<>> /\ all_field_titles = <<>>
    /\ all_keys_main_slot_info = <<>> /\ slot_hash_by_title = {}
    /\ slot_hash_by_mixs_id = {} /\ xpc = "start"
    /\ IdleClean /\ IdleTruthy /\ IdleClient /\ IdleProcess /\ IdleMain

\* MIxsFull.__init__, lines 54-61
Construct ==
    /\ xpc = "start"
    /\ LET empty == [all_field_names |-> <<>>, all_field_titles |-> <<>>]
           lists == get_all_field_titles(slots, get_all_field_names(slots, empty))
       IN /\ all_field_names' = lists.all_field_names
          /\ all_field_titles' = lists.all_field_titles
    \* populate_all_keys_slot_info
    /\ all_keys_main_slot_info' = [i \in 1..Len(slots) |-> <<slots[i].key, get_title(slots[i])>>]
    /\ slot_hash_by_title' =
          slot_hash([i \in 1..Len(slots) |-> <<get_title(slots[i]), slots[i].key>>])
    /\ LET with_id == SelectSeq(slots, LAMBDA v : v.mixs_id # None)
       IN slot_hash_by_mixs_id' =
             slot_hash([i \in 1..Len(with_id) |-> <<with_id[i].mixs_id[1], with_id[i].key>>])
    /\ slots' = [i \in 1..Len(slots) |-> [slots[i] EXCEPT !.name = Some(slots[i].key)]]
    /\ xpc' = "constructed"
    /\ UNCHANGED <<cleanVars, truthyVars, clientVars, processVars, mainVars>>

\* get_all_field_names() on the constructed object
GetAllFieldNames ==
    /\ xpc \in {"constructed", "names", "titles"}
    /\ LET lists == get_all_field_names(slots,
                       [all_field_names |-> all_field_names,
                        all_field_titles |-> all_field_titles])
       IN /\ all_field_names' = lists.all_field_names
          /\ all_field_titles' = lists.all_field_titles
    /\ xpc' = "names"
    /\ UNCHANGED <<slots, all_keys_main_slot_info, slot_hash_by_title, slot_hash_by_mixs_id>>
    /\ UNCHANGED <<cleanVars, truthyVars, clientVars, processVars, mainVars>>

\* get_all_field_titles() on the constructed object
GetAllFieldTitles ==
    /\ xpc \in {"constructed", "names", "titles"}
    /\ LET lists == get_all_field_titles(slots,
                       [all_field_names |-> all_field_names,
                        all_field_titles |-> all_field_titles])
       IN /\ all_field_names' = lists.all_field_names
          /\ all_field_titles' = lists.all_field_titles
    /\ xpc' = "titles"
    /\ UNCHANGED <<slots, all_keys_main_slot_info, slot_hash_by_title, slot_hash_by_mixs_id>>
    /\ UNCHANGED <<cleanVars, truthyVars, clientVars, processVars, mainVars>>

NextMixs == Construct \/ GetAllFieldNames \/ GetAllFieldTitles

SpecMixs == InitMixs /\ [][NextMixs]_vars

(***************************************************************************)
(* Claims about clean_ena_field_list (SpecClean).                          *)
(***************************************************************************)
\* m is one of the placeholder tokens, compared case-insensitively
IsPlaceholder(m) == lower(m) \in NonTerms

\* C1: for every term list, the result of clean_ena_field_list has no member
\* that is a placeholder token (?, TBD, N.A., N.A.?, eh?, not_needed, in any
\* case) and no member containing a '+'.
C1_NoPlaceholderNoPlus ==
    cpc \in {"cleaned", "recleaned"} =>
        \A m \in cleaned : ~IsPlaceholder(m) /\ ~contains(m, "+")

\* C2: every member of the result is a non-empty string without leading or
\* trailing whitespace, and ["temp", "ph", "+x", "TBD"] gives exactly
\* {"temp", "ph"}.
C2_MembersNonEmptyStripped ==
    cpc \in {"cleaned", "recleaned"} =>
        /\ \A m \in cleaned : m # <<>> /\ ~isspace(m[1]) /\ ~isspace(m[Len(m)])
        /\ field_list = <<TextV(temp), TextV(ph), TextV(<<"+", "x">>), TextV(<<"T", "B", "D">>)>>
              => cleaned = {temp, ph}

\* C3: clean_ena_field_list is idempotent: cleaning the members of its
\* result gives the same set of strings.
C3_Idempotent == cpc = "recleaned" => recleaned = cleaned

\* C16: clean_ena_field_list strips quote characters from every retained
\* value, with or without a '+': no member of the result contains a
\* double-quote character.
C16_NoQuoteInMembers ==
    cpc \in {"cleaned", "recleaned"} => \A m \in cleaned : ~contains(m, "\"")

(***************************************************************************)
(* Claims about _is_truthy (SpecTruthy).                                   *)
(***************************************************************************)
\* the string forms the claim lists as true
C4_TrueForms ==
    { <<"t", "r", "u", "e">>, <<"t">>, <<"y", "e", "s">>, <<"y">>, <<"1">> }

\* C4: _is_truthy returns a boolean for every cell value, and returns true
\* exactly for boolean true, the integer 1, and a non-boolean non-integer
\* value whose string form, trimmed and lower-cased, is one of "true", "t",
\* "yes", "y", "1"; every other value gives false.
C4_TruthyFailsClosed ==
    truthy # <<>> =>
        /\ Len(truthy) = 1 /\ truthy[1] \in BOOLEAN
        /\ truthy[1] <=>
              \/ cell.t = "bool" /\ cell.b
              \/ cell.t = "int" /\ cell.n = 1
              \/ /\ cell.t \notin {"bool", "int"}
                 /\ lower(strip(str(cell))) \in C4_TrueForms

\* a padded, mixed-case text was coerced to true
C4_Witness ==
    /\ truthy = <<TRUE>>
    /\ cell.t = "text"
    /\ cell.s # lower(strip(cell.s))
    /\ strip(cell.s) # cell.s

(***************************************************************************)
(* Claims about ENASchemaStoreClient (SpecClient).                         *)
(***************************************************************************)
Returned(name) == outcome = "returned" /\ op[1] = name

TotalRequests == requests["/fields"] + requests["/schemas/list"]

\* the ranking pair the claim gives a record: a missing lastModifiedDate
\* counts as the empty string, a missing version as -1
C5_Rank(f) ==
    << IF f.lastModifiedDate = None THEN <<>> ELSE f.lastModifiedDate[1],
       IF f.version = None THEN -1 ELSE f.version[1] >>

\* C5: get_latest_field_details returns absent exactly when no record has
\* the requested label; otherwise it returns a record with that label whose
\* (lastModifiedDate, version) pair is greatest among the matching records,
\* version 0 ranking above a missing version.
C5_LatestIsGreatest ==
    Returned("get_latest_field_details") =>
        LET matching == {i \in 1..Len(fields) : fields[i].label = Some(op[2])}
            r == result[1]
        IN IF matching = {} THEN r = None
           ELSE /\ r # None
                /\ \E i \in matching : fields[i] = r[1]
                /\ \A j \in matching : ~key_lt(C5_Rank(r[1]), C5_Rank(fields[j]))

\* the non-empty labels of the page, in page order
C6_Labels ==
    LET idx == {i \in 1..Len(fields) : fields[i].label # None /\ fields[i].label[1] # <<>>}
        nth(k) == CHOOSE i \in idx : Cardinality({j \in idx : j <= i}) = k
    IN [k \in 1..Cardinality(idx) |-> fields[nth(k)].label[1]]

C6_Permutations(n) == {p \in [1..n -> 1..n] : \A i, j \in 1..n : p[i] = p[j] => i = j}

\* C6 as stated: list_field_names returns exactly the non-empty labels, one
\* per record, lower-cased labels non-decreasing, and labels equal
\* case-insensitively ordered by their original string ordering.
C6_TiesByStringOrder ==
    Returned("list_field_names") =>
        LET r == result[1]
            n == Len(C6_Labels)
        IN /\ Len(r) = n
           /\ \E p \in C6_Permutations(n) : \A i \in 1..n : r[i] = C6_Labels[p[i]]
           /\ \A i, j \in 1..n : i < j =>
                 \/ str_lt(lower(r[i]), lower(r[j]))
                 \/ lower(r[i]) = lower(r[j]) /\ ~str_lt(r[j], r[i])

\* C6 amended: list_field_names returns exactly the non-empty labels, one per
\* record, lower-cased labels non-decreasing, and labels equal
\* case-insensitively in the order their records have on the page.
C6_TiesByPageOrder ==
    Returned("list_field_names") =>
        LET r == result[1]
            n == Len(C6_Labels)
        IN /\ Len(r) = n
           /\ \E p \in C6_Permutations(n) :
                 /\ \A i \in 1..n : r[i] = C6_Labels[p[i]]
                 /\ \A i, j \in 1..n : i < j =>
                       \/ str_lt(lower(r[i]), lower(r[j]))
                       \/ lower(r[i]) = lower(r[j]) /\ p[i] < p[j]

\* two labels equal but for their case came back in page order, against
\* their string order
C6_Witness ==
    /\ Returned("list_field_names")
    /\ Len(result[1]) = 2
    /\ result[1][1] # result[1][2]
    /\ lower(result[1][1]) = lower(result[1][2])
    /\ str_lt(result[1][2], result[1][1])

\* C7: list_schemas gives the same triplets whether the schemas collection
\* arrives as a keyed mapping or as a list of the same entries in the same
\* order.
C7_SameTripletsBothShapes ==
    /\ Returned("list_schemas") /\ op[2] = "mapping" =>
          result[1] = list_schemas(Container("list", schemas))
    /\ Returned("list_schemas") /\ op[2] = "list" =>
          result[1] = list_schemas(Container("mapping", schemas))

\* a keyed mapping of two entries gave two triplets
C7_Witness ==
    /\ Returned("list_schemas") /\ op[2] = "mapping"
    /\ Len(schemas) = 2 /\ Len(result[1]) = 2

\* the characters of a Python str of the model
C8_Chars == {Ascii[i] : i \in 1..Len(Ascii)}

\* C8: list_schemas drops every entry without an id and every entry that is
\* not a record, and returns one triplet per remaining entry in input order:
\* the id as a string, accession and name unchanged or absent.
C8_DropsEntriesWithoutId ==
    Returned("list_schemas") /\ op[2] \in {"mapping", "list"} =>
        LET idx == {i \in 1..Len(schemas) : schemas[i][2].isdict /\ schemas[i][2].id # None}
            nth(k) == schemas[CHOOSE i \in idx : Cardinality({j \in idx : j <= i}) = k][2]
            r == result[1]
        IN /\ Len(r) = Cardinality(idx)
           /\ \A k \in 1..Len(r) :
                 /\ r[k][1] \in Seq(C8_Chars)
                 /\ r[k][1] = (IF nth(k).id[1].t = "int" THEN str_int(nth(k).id[1].n)
                               ELSE nth(k).id[1].s)
                 /\ r[k][2] = nth(k).accession
                 /\ r[k][3] = nth(k).name

\* of two entries, the one without an id was dropped and the one with the
\* id 0 was kept
C8_Witness ==
    /\ Returned("list_schemas") /\ op[2] = "list"
    /\ Len(schemas) = 2 /\ Len(result[1]) = 1
    /\ result[1][1][1] = <<"0">>

\* C9: every client operation issues exactly one GET and nothing is cached:
\* after n operations n GET requests have been issued.
C9_OneGetPerOperation == TotalRequests = calls

\* list_schemas was called twice and two requests went to /schemas/list
C9_Witness == calls = 2 /\ requests["/schemas/list"] = 2 /\ outcome = "returned"

\* C10: when the GET of an operation fails, the operation raises, returns
\* nothing and has issued exactly one request: no retry.
C10_FailureRaisesAtOnce ==
    [][calls' # calls /\ response' # "ok" =>
          /\ outcome' = "raised"
          /\ result' = <<>>
          /\ TotalRequests' = TotalRequests + 1]_vars

\* a second operation failed on a timeout after an earlier one had returned
C10_Witness ==
    /\ calls = 2 /\ response = "timeout" /\ outcome = "raised"
    /\ requests["/fields"] = 1 /\ requests["/schemas/list"] = 1

(***************************************************************************)
(* Claims about process (SpecProcess).                                     *)
(***************************************************************************)
\* the canonical term sets of the two sheets
C11_A == clean_ena_field_list(df_carl)
C11_B == clean_ena_field_list(recommended_column(df_ena))

Range(s) == {s[i] : i \in 1..Len(s)}

\* C11: process reports common = A intersect B, A_only = A minus B, B_only =
\* B minus A and A_only_excluding_experiment = A_only minus
\* experiment_ena_fields_all, by exact string equality; so common, A_only and
\* B_only are pairwise disjoint and cover A union B, and A = {temp, ph},
\* B = {temp, depth} give {temp}, {ph}, {depth}.
C11_SetDifferences ==
    ppc = "done" =>
        LET r == report[1].terms
            All == C11_A \cup C11_B \cup experiment_ena_fields_all
        IN /\ \A x \in All \cup Range(r.common) \cup r.carl_only \cup r.ena_only
                        \cup r.carl_only_not_experiment :
                 /\ x \in Range(r.common) <=> (x \in C11_A /\ x \in C11_B)
                 /\ x \in r.carl_only <=> (x \in C11_A /\ x \notin C11_B)
                 /\ x \in Range(r.carl_diff_terms) <=> x \in r.carl_only
                 /\ x \in r.ena_only <=> (x \in C11_B /\ x \notin C11_A)
                 /\ x \in r.carl_only_not_experiment <=>
                       (x \in r.carl_only /\ x \notin experiment_ena_fields_all)
           /\ Range(r.common) \cap r.carl_only = {}
           /\ Range(r.common) \cap r.ena_only = {}
           /\ r.carl_only \cap r.ena_only = {}
           /\ Range(r.common) \cup r.carl_only \cup r.ena_only = C11_A \cup C11_B
           /\ (C11_A = {temp, ph} /\ C11_B = {temp, depth}) =>
                 /\ r.common = <<temp>>
                 /\ r.carl_only = {ph}
                 /\ r.ena_only = {depth}

\* the sheets of the claim's example were reconciled
C11_Witness ==
    /\ ppc = "done"
    /\ df_carl = <<TextV(temp), TextV(ph)>>
    /\ recommended_column(df_ena) = <<TextV(temp), TextV(depth)>>
    /\ report[1].terms.common = <<temp>>

\* C12: the mandatory-coverage figure has as numerator the number of
\* mandatory fields that are in B and as denominator the number of mandatory
\* fields; the remaining list is the mandatory fields not in B, sorted; the
\* numerator plus the length of the remaining list is the denominator.
C12_MandatoryCoverage ==
    ppc = "done" =>
        LET c == report[1].mandatory
        IN /\ c.numerator = Cardinality({m \in mandatory_ena_fields : m \in C11_B})
           /\ c.denominator = Cardinality(mandatory_ena_fields)
           /\ Range(c.remaining) = {m \in mandatory_ena_fields : m \notin C11_B}
           /\ \A i, j \in 1..Len(c.remaining) : i < j => str_lt(c.remaining[i], c.remaining[j])
           /\ c.numerator + Len(c.remaining) = c.denominator

\* two of the seven mandatory fields are on ENA's sheet
C12_Witness ==
    /\ ppc = "done"
    /\ report[1].mandatory.numerator = 2
    /\ report[1].mandatory.denominator = 7
    /\ Len(report[1].mandatory.remaining) = 5

\* C15: process performs no I/O of its own: it issues no HTTP request and
\* writes no file.
C15_ProcessDoesNoIO ==
    ppc \in {"done", "raised"} => TotalRequests = 0 /\ files = {}

\* C17: the 'new term' marker set that process intersects with A is a subset
\* of the canonical set B, so the reported new terms on A are a subset of the
\* reported common terms.
C17_NewTermsWithinCommon ==
    ppc = "done" =>
        /\ \A c \in report[1].new_set : c.t = "text" /\ c.s \in C11_B
        /\ Range(report[1].terms.new_on_carl) \subseteq Range(report[1].terms.common)

(***************************************************************************)
(* Claims about main (SpecMain).                                           *)
(***************************************************************************)
Reported(s) == \E i \in 1..Len(printed) : printed[i][2] = s

\* C13: if exactly one of the two sheet fetches of main fails while the other
\* succeeds, the run still reports the partial result for the sheet that
\* loaded instead of aborting.
C13_PartialResultReported ==
    \A s \in {"A", "B"} :
        LET other == IF s = "A" THEN "B" ELSE "A"
        IN (fetched[s] = "ok" /\ fetched[other] = "failed")
              => (mpc # "raised" /\ (mpc \in {"loaded", "done"} => Reported(s)))

URL_without_id_path == <<"h", "t", "t", "p", "s", ":", "/", "/", "g", "/", "e", "d", "i", "t", "?", "x", "=", "/", "s", "p", "r", "e", "a", "d", "s", "h", "e", "e", "t", "s", "/", "d", "/", "1", "E">>

\* C14: validation of both identifiers precedes every fetch: if --sheet-a or
\* --sheet-b cannot be parsed into a non-empty spreadsheet id (a URL without a
\* /spreadsheets/d/<id> path, or an empty bare id), main exits with status 2,
\* no CSV export request is ever issued and no file is written.
C14_ValidationPrecedesFetch ==
    /\ not_sid(_extract_sheet_id_and_gid(URL_without_id_path))
    /\ not_sid(_extract_sheet_id_and_gid(<<>>))
    /\ (\/ not_sid(_extract_sheet_id_and_gid(sheet_a))
        \/ not_sid(_extract_sheet_id_and_gid(sheet_b)))
          => /\ \A s \in {"A", "B"} : fetched[s] = "no"
             /\ files = {}
             /\ mpc \in {"start", "exited"}
             /\ mpc = "exited" => exit_code = Some(2)
    /\ mpc \notin {"idle", "start", "exited"}
          => /\ ~not_sid(_extract_sheet_id_and_gid(sheet_a))
             /\ ~not_sid(_extract_sheet_id_and_gid(sheet_b))

\* sheet A is a good URL, sheet B is not, and main has exited
C14_Witness ==
    /\ mpc = "exited" /\ exit_code = Some(2)
    /\ _extract_sheet_id_and_gid(sheet_a) = Some(<<"1", "E", "-", "W">>)
    /\ sheet_b = URL_without_id_path
    /\ \A s \in {"A", "B"} : fetched[s] = "no"

\* C18: when pandas is unavailable, or the pandas load of either sheet fails,
\* main falls back to the csv module, prints the preview of both sheets, and
\* then runs to normal completion: the final step does nothing and raises no
\* error.
C18_FallbackCompletes ==
    pd_flag = Some(FALSE) =>
        /\ Reported("A") /\ Reported("B")
        /\ mpc \in {"loaded", "done"}
        /\ files = {}

(***************************************************************************)
(* Claims about MIxsFull (SpecMixs).                                       *)
(***************************************************************************)
\* C19: after construction and after any sequence of get_all_field_names and
\* get_all_field_titles calls, all_field_names is exactly the sequence of slot
\* keys not ending in "_data", in schema order, each key once, and
\* all_field_titles has the same length with the i-th title belonging to the
\* i-th name; repeated calls never append duplicates.
C19_NamesAndTitlesAligned ==
    xpc \in {"constructed", "names", "titles"} =>
        LET kept == SelectSeq(slots, LAMBDA v : ~endswith(v.key, _data))
        IN /\ all_field_names = [i \in 1..Len(kept) |-> kept[i].key]
           /\ all_field_titles = [i \in 1..Len(kept) |-> get_title(kept[i])]
           /\ \A i, j \in 1..Len(all_field_names) :
                 i # j => all_field_names[i] # all_field_names[j]

====
